---- MODULE Spec2Model ----
\* Model of the GitHub polling loop of bot.py (check_commits, get_public_repos)
\* driven by discord.ext.tasks.loop(minutes=1).
EXTENDS Integers, Naturals, Sequences, FiniteSets, TLC

\* ---------------------------------------------------------------- bounds
NAccts == 2
NRepos == 2
MaxCommits == 3
MaxTime == 8
DateSkew == 1
Step == 4
LinkRows == 2
LinkUsers == 1
LinkCommits == 2
LinkTime == 4

\* ---------------------------------------------------------------- program constants
Window == 7
PageSize == 10

Accts == 1..NAccts
\* ids github_accounts' AUTOINCREMENT may hand out
Rows == 1..(IF NAccts > LinkRows THEN NAccts ELSE LinkRows)
Repos == 1..NRepos

\* ---------------------------------------------------------------- state
\* users  : the GitHub users that exist (fixed)
\* lag    : the most an author date may precede its push, in days (fixed)
\* cap    : the number of pushes upstream makes (fixed)
\* horizon: the last clock value observed, in days (fixed)
\* now    : wall clock, in days (datetime.utcnow()); a tick reads it once
\* made   : every commit ever pushed upstream; sha = index, record of
\*          owning account, repository and author date
\* cursor : github_accounts.last_event_id per row id (0 = NULL)
\* loop   : state of the tasks.loop task ("running" or "stopped")
\* pc     : 0 between ticks, else the position in snap of the next
\*          account to process
\* snap   : the tick's `accounts` snapshot (rows in id order, with the
\*          last_event_id read at the tick's start); << >> between ticks
\* mark   : during a tick, Len(made) when the iteration of the account at pc
\*          began (the previous step of the tick); 0 between ticks
\* obs    : what the latest account step did (account, cursor read,
\*          outcomes of the upstream and database calls, newest_commits,
\*          commits handed to channel.send); reset by the other actions
\* live   : ids of the rows of github_accounts
\* owner  : per row id, the GitHub user of the row (0 = id never used)
\* nextId : the id the next INSERT gets (AUTOINCREMENT: never reused)
\* running: number of check_commits invocations in flight
\* linked : per row id, Len(made) when add_github seeded the row, until
\*          a tick started after that completes its fetch loop for the row
\*          (-1 otherwise)
\* adding : the rows the add_github invocations in progress have inserted
\*          and not yet seeded
VARIABLES users, lag, cap, horizon, now, made, cursor, loop, pc, snap, mark, obs, live, owner, nextId, running, linked, adding

vars == <<users, lag, cap, horizon, now, made, cursor, loop, pc, snap, mark, obs, live, owner, nextId, running, linked, adding>>

\* event["id"] of a PushEvent: an events-API id, never a commit sha
EventId == -1

NoSel == [r \in Repos |-> 0]

NoObs == [a |-> 0, u |-> 0, cur0 |-> 0, disc |-> "none", bad |-> {}, tr |-> FALSE,
          seen |-> NoSel,
          sel |-> NoSel, w |-> "none", chan |-> FALSE, sent |-> {},
          st |-> "none"]

Date(s) == made[s].date

\* commits endpoint, per_page=10: newest first (push order), among the
\* first n pushed commits
RECURSIVE PageFrom(_, _, _)
PageFrom(a, r, k) ==
  IF k = 0 THEN << >>
  ELSE IF made[k].acct = a /\ made[k].repo = r
       THEN <<k>> \o PageFrom(a, r, k - 1)
       ELSE PageFrom(a, r, k - 1)

Page(a, r, n) ==
  LET p == PageFrom(a, r, n)
  IN IF Len(p) > PageSize THEN SubSeq(p, 1, PageSize) ELSE p

\* the walk with a window one day wider
RECURSIVE WalkFromWide(_, _, _, _, _)
WalkFromWide(page, i, r, cur, tn) ==
  IF i > Len(page) THEN << >>
  ELSE IF cur # 0 /\ page[i] = cur THEN << >>
  ELSE IF tn - Date(page[i]) <= Window + 1
       THEN << <<r, page[i]>> >> \o WalkFromWide(page, i + 1, r, cur, tn)
       ELSE WalkFromWide(page, i + 1, r, cur, tn)

\* inner `for commit in commits` loop: break at the cursor sha, keep the
\* commits inside the trailing window
RECURSIVE WalkFrom(_, _, _, _, _)
WalkFrom(page, i, r, cur, tn) ==
  IF i > Len(page) THEN << >>
  ELSE IF cur # 0 /\ page[i] = cur THEN << >>
  ELSE IF tn - Date(page[i]) <= Window
       THEN << <<r, page[i]>> >> \o WalkFrom(page, i + 1, r, cur, tn)
       ELSE WalkFrom(page, i + 1, r, cur, tn)

\* new_commits: concatenation over the repos in listing order, skipping
\* the repos whose fetch did not return 200; the page of repo r is fetched
\* when the first ns[r] commits had been pushed
RECURSIVE NewFrom(_, _, _, _, _, _)
NewFrom(a, r, okRepos, cur, tn, ns) ==
  IF r > NRepos THEN << >>
  ELSE (IF r \in okRepos THEN WalkFrom(Page(a, r, ns[r]), 1, r, cur, tn) ELSE << >>)
       \o NewFrom(a, r + 1, okRepos, cur, tn, ns)

NewCommits(a, okRepos, cur, tn, ns) == NewFrom(a, 1, okRepos, cur, tn, ns)

\* every page fetched when the first n commits had been pushed
Upto(n) == [r \in Repos |-> n]

\* the commits requests of one account are awaited one after the other, in
\* repo order, so pushes may land between them: the page of each repo is
\* fetched at some point after the account's iteration began (lo pushes)
\* and no later than the next repo's; pushes after the last request do not
\* affect the iteration, so the last page is taken at its end (hi pushes)
FetchPoints(lo, hi) ==
  {ns \in [Repos -> lo..hi] :
     /\ ns[NRepos] = hi
     /\ \A r \in Repos : r < NRepos => ns[r] <= ns[r + 1]}

\* per repo, the commit with the smallest date
RECURSIVE ConflateFromOldest(_, _, _)
ConflateFromOldest(nc, i, acc) ==
  IF i > Len(nc) THEN acc
  ELSE LET r == nc[i][1]
           s == nc[i][2]
       IN ConflateFromOldest(nc, i + 1,
            IF acc[r] = 0 \/ Date(s) < Date(acc[r])
            THEN [acc EXCEPT ![r] = s] ELSE acc)

\* newest_commits: per repo keep the commit with the greatest date
\* (strict >, so the first one seen wins a tie)
RECURSIVE ConflateFrom(_, _, _)
ConflateFrom(nc, i, acc) ==
  IF i > Len(nc) THEN acc
  ELSE LET r == nc[i][1]
           s == nc[i][2]
       IN ConflateFrom(nc, i + 1,
            IF acc[r] = 0 \/ Date(s) > Date(acc[r])
            THEN [acc EXCEPT ![r] = s] ELSE acc)

Conflate(nc) == ConflateFrom(nc, 1, NoSel)

\* the selected commit with the smallest date
RECURSIVE MostRecentFromOldest(_, _, _)
MostRecentFromOldest(sel, r, best) ==
  IF r > NRepos THEN best
  ELSE MostRecentFromOldest(sel, r + 1,
         IF sel[r] # 0 /\ (best = 0 \/ Date(sel[r]) < Date(best))
         THEN sel[r] ELSE best)

\* max(newest_commits.values(), key=date): dict order is repo order,
\* the first maximal entry wins
RECURSIVE MostRecentFrom(_, _, _)
MostRecentFrom(sel, r, best) ==
  IF r > NRepos THEN best
  ELSE MostRecentFrom(sel, r + 1,
         IF sel[r] # 0 /\ (best = 0 \/ Date(sel[r]) > Date(best))
         THEN sel[r] ELSE best)

MostRecent(sel) == MostRecentFrom(sel, 1, 0)

\* selected commits in newest_commits.items() order
RECURSIVE SelListFrom(_, _)
SelListFrom(sel, r) ==
  IF r > NRepos THEN << >>
  ELSE (IF sel[r] # 0 THEN <<sel[r]>> ELSE << >>) \o SelListFrom(sel, r + 1)

SelList(sel) == SelListFrom(sel, 1)

Range(f) == {f[x] : x \in DOMAIN f}

NextPc(i) == IF i < Len(snap) THEN i + 1 ELSE 0

\* SELECT id, ..., last_event_id FROM github_accounts (rowid order)
RECURSIVE SnapshotFrom(_, _)
SnapshotFrom(ids, c) ==
  IF ids = {} THEN << >>
  ELSE LET m == CHOOSE x \in ids : \A y \in ids : x <= y
       IN <<[id |-> m, u |-> owner[m], cur |-> c[m], ln |-> linked[m]]>> \o SnapshotFrom(ids \ {m}, c)

\* ---------------------------------------------------------------- actions
\* after setup_hook: init_db done, check_commits.start()
InitState ==
  /\ now = 0
  /\ made = << >>
  /\ cursor = [a \in Rows |-> 0]
  /\ loop = "running"
  /\ pc = 0
  /\ snap = << >>
  /\ obs = NoObs
  /\ running = 0
  /\ linked = [a \in Rows |-> -1]
  /\ mark = 0
  /\ adding = {}

\* one linked account
Init ==
  /\ InitState
  /\ users = Accts
  /\ lag = DateSkew
  /\ cap = MaxCommits
  /\ horizon = MaxTime
  /\ live = {1}
  /\ owner = [r \in Rows |-> IF r = 1 THEN 1 ELSE 0]
  /\ nextId = 2

\* upstream, also while a tick runs: a commit is pushed to repo r of user a,
\* author date at most lag days before the push (once the polling
\* task has ended no later push is observed)
Push ==
  /\ loop = "running"
  /\ Len(made) < cap
  /\ \E a \in users, r \in Repos, d \in 0..lag :
       /\ now - d >= 0
       /\ made' = Append(made, [acct |-> a, repo |-> r, date |-> now - d])
  /\ obs' = NoObs
  /\ UNCHANGED <<users, lag, cap, horizon, now, cursor, loop, pc, snap, mark, live, owner, nextId, running, linked, adding>>

\* the clock, sampled every Step days between ticks
Advance ==
  /\ loop = "running"
  /\ pc = 0
  /\ now + Step <= horizon
  /\ now' = now + Step
  /\ obs' = NoObs
  /\ UNCHANGED <<users, lag, cap, horizon, made, cursor, loop, pc, snap, mark, live, owner, nextId, running, linked, adding>>

\* the next iteration of tasks.loop is due: Loop._loop awaits the
\* coroutine before it sleeps until the next interval (or, after a
\* reconnect-set exception, the backoff), so an iteration is only due once
\* the previous invocation has returned
\* a scheduler firing every interval, whether or not the last run returned
TickDueTimer(r) == TRUE

TickDue(r) == r = 0

\* tasks.loop fires check_commits: the accounts SELECT, now = utcnow().
\* The SELECT (or its aiosqlite.connect) may raise a sqlite3 error, which
\* is outside the reconnect set and ends the task. A snapshot without
\* rows makes the invocation return at once and changes nothing.
StartTick ==
  /\ loop = "running"
  /\ TickDue(running)
  /\ \/ /\ live # {}
        /\ pc' = 1
        /\ snap' = SnapshotFrom(live, cursor)
        /\ mark' = Len(made)
        /\ running' = running + 1
        /\ UNCHANGED loop
     \/ /\ loop' = "stopped"
        /\ UNCHANGED <<pc, snap, mark, running>>
  /\ obs' = NoObs
  /\ UNCHANGED <<users, lag, cap, horizon, now, made, cursor, live, owner, nextId, linked, adding>>

\* the coroutine raised: an exception of tasks.loop's reconnect set
\* (OSError, aiohttp.ClientError, asyncio.TimeoutError, ...) ends this
\* invocation and the loop runs check_commits again after a backoff; any
\* other exception ends the task
Raise(kind) ==
  /\ pc' = 0
  /\ IF kind = "retry" THEN UNCHANGED loop ELSE loop' = "stopped"

\* one iteration of `for acc_id, ... in accounts` in check_commits; the
\* UPDATE of a row deleted meanwhile changes nothing
ProcessAccount ==
  /\ loop = "running"
  /\ pc # 0
  /\ LET a == snap[pc].id
         u == snap[pc].u
         cur == snap[pc].cur
         o0 == [NoObs EXCEPT !.a = a, !.u = u, !.cur0 = cur]
         Write(v) == cursor' = IF a \in live THEN [cursor EXCEPT ![a] = v] ELSE cursor
     IN /\ \E disc \in {"ok", "empty", "transport"} :
            \/ /\ disc = "empty"
               \* get_public_repos returned [] (status != 200, or no public
               \* repo): skip the account
               /\ obs' = [o0 EXCEPT !.disc = disc, !.st = "skip"]
               /\ pc' = NextPc(pc)
               /\ UNCHANGED <<cursor, loop>>
            \/ /\ disc = "transport"
               \* session.get in get_public_repos raised
               /\ obs' = [o0 EXCEPT !.disc = disc, !.st = "retry"]
               /\ Raise("retry")
               /\ UNCHANGED <<cursor>>
            \/ /\ disc = "ok"
               \* bad: repos answering status != 200; tr: some session.get raises
               \* (the run is abandoned whatever the other repos answered)
               /\ \E bad \in SUBSET Repos, tr \in BOOLEAN,
                    ns \in FetchPoints(mark, Len(made)) :
                  (tr => bad = {} /\ ns = Upto(Len(made))) /\
                  LET nc == NewCommits(u, Repos \ bad, cur, now, ns)
                      sel == Conflate(nc)
                      ms == MostRecent(sel)
                      L == SelList(sel)
                      o1 == [o0 EXCEPT !.disc = "ok", !.bad = bad, !.tr = tr, !.seen = ns]
                  IN \/ /\ tr
                        \* session.get for some repo raised
                        /\ obs' = [o1 EXCEPT !.st = "retry"]
                        /\ Raise("retry")
                        /\ UNCHANGED <<cursor>>
                     \/ /\ ~tr
                        /\ \/ /\ nc = << >>
                              /\ obs' = [o1 EXCEPT !.st = "done"]
                              /\ pc' = NextPc(pc)
                              /\ UNCHANGED <<cursor, loop>>
                           \/ /\ nc # << >>
                              /\ \/ \* UPDATE github_accounts raised (sqlite3 error)
                                    /\ obs' = [o1 EXCEPT !.sel = sel, !.w = "fail", !.st = "stop"]
                                    /\ Raise("stop")
                                    /\ UNCHANGED cursor
                                 \/ /\ Write(ms)
                                    /\ LET o2 == [o1 EXCEPT !.sel = sel, !.w = "ok"]
                                       IN \/ \* the settings SELECT (or its connect)
                                             \* raised a sqlite3 error: nothing sent
                                             /\ obs' = [o2 EXCEPT !.st = "stop"]
                                             /\ Raise("stop")
                                          \/ \* no channel resolved: nothing is sent
                                             /\ obs' = [o2 EXCEPT !.st = "done"]
                                             /\ pc' = NextPc(pc)
                                             /\ UNCHANGED loop
                                          \/ \* every channel.send succeeds
                                             /\ obs' = [o2 EXCEPT !.chan = TRUE,
                                                          !.sent = Range(L), !.st = "done"]
                                             /\ pc' = NextPc(pc)
                                             /\ UNCHANGED loop
                                          \/ \* channel.send of the (j+1)-th commit raises
                                             \E j \in 0..(Len(L) - 1), kind \in {"retry", "stop"} :
                                             /\ obs' = [o2 EXCEPT !.chan = TRUE,
                                                          !.sent = Range(SubSeq(L, 1, j + 1)),
                                                          !.st = kind]
                                             /\ Raise(kind)
  \* the invocation returns after its last account or ends by an exception
  \* the first fetch loop of a tick started after the seed completes
  /\ linked' = IF obs'.disc = "ok" /\ ~obs'.tr /\ snap[pc].ln >= 0
               THEN [linked EXCEPT ![snap[pc].id] = -1] ELSE linked
  /\ running' = IF pc' = 0 THEN running - 1 ELSE running
  /\ snap' = IF pc' = 0 THEN << >> ELSE snap
  /\ mark' = IF pc' = 0 THEN 0 ELSE Len(made)
  /\ UNCHANGED <<users, lag, cap, horizon, now, made, live, owner, nextId, adding>>

\* /add_github, first part: INSERT a row for user u with last_event_id
\* NULL; the row gets a fresh id, also when u already has a row (a tick
\* and other add_github invocations may be running)
AddInsert ==
  /\ nextId \in Rows
  /\ nextId <= LinkRows
  /\ \E u \in users :
       /\ live' = live \cup {nextId}
       /\ owner' = [owner EXCEPT ![nextId] = u]
       /\ cursor' = [cursor EXCEPT ![nextId] = 0]
       /\ adding' = adding \cup {nextId}
       /\ nextId' = nextId + 1
  /\ obs' = NoObs
  /\ UNCHANGED <<users, lag, cap, horizon, now, made, loop, pc, snap, mark, running, linked>>

\* /add_github, after get_public_repos and the events requests: UPDATE the
\* row with event["id"] of a PushEvent when one was found. No public repo
\* (early return), no PushEvent, non-200 answers or an exception leave the
\* row as it is; a PushEvent exists once the user has pushed. The UPDATE
\* of a row deleted meanwhile changes nothing.
AddSeed ==
  /\ \E a \in adding, seed \in {0, EventId} :
       /\ seed = EventId => \E s \in 1..Len(made) : made[s].acct = owner[a]
       /\ cursor' = IF seed = EventId /\ a \in live
                    THEN [cursor EXCEPT ![a] = EventId] ELSE cursor
       /\ linked' = IF a \in live THEN [linked EXCEPT ![a] = Len(made)] ELSE linked
       /\ adding' = adding \ {a}
  /\ obs' = NoObs
  /\ UNCHANGED <<users, lag, cap, horizon, now, made, loop, pc, snap, mark, live, owner, nextId, running>>

\* /remove_github: DELETE every row of the user (a tick may be running)
RemoveGithub ==
  /\ \E u \in {owner[r] : r \in live} :
       /\ live' = {r \in live : owner[r] # u}
       /\ cursor' = [r \in Rows |-> IF r \in live' THEN cursor[r] ELSE 0]
       /\ linked' = [r \in Rows |-> IF r \in live' THEN linked[r] ELSE -1]
  /\ obs' = NoObs
  /\ UNCHANGED <<users, lag, cap, horizon, now, made, loop, pc, snap, mark, owner, nextId, running, adding>>

Next == Push \/ Advance \/ StartTick \/ ProcessAccount

Spec == Init /\ [][Next]_vars

\* several linked accounts processed in one tick
InitTwo ==
  /\ InitState
  /\ users = Accts
  /\ lag = DateSkew
  /\ cap = MaxCommits
  /\ horizon = MaxTime
  /\ live = Accts
  /\ owner = [r \in Rows |-> IF r \in Accts THEN r ELSE 0]
  /\ nextId = NAccts + 1

SpecTwo == InitTwo /\ [][Next]_vars

\* accounts linked and removed with /add_github and /remove_github while
\* the bot runs
InitLink ==
  /\ InitState
  /\ users = 1..LinkUsers
  /\ lag = 0
  /\ cap = LinkCommits
  /\ horizon = LinkTime
  /\ live = {}
  /\ owner = [r \in Rows |-> 0]
  /\ nextId = 1

NextLink == Next \/ AddInsert \/ AddSeed \/ RemoveGithub

SpecLink == InitLink /\ [][NextLink]_vars

\* ---------------------------------------------------------------- properties

SelSet(sel) == Range(sel) \ {0}

\* a ProcessAccount step (every other action resets obs)
Processed == obs.a # 0

\* obs describes a run of the per-repo fetch loop that completed
Fetched == Processed /\ obs.disc = "ok" /\ ~obs.tr

\* commits of repo r a fetch at tick time tn with cursor cur may select,
\* stated without the walk: in the page, inside the window, and pushed
\* after the cursor commit when the cursor is in the page
Qualifying(a, r, cur, tn, n) ==
  LET inRepo == {s \in 1..n : made[s].acct = a /\ made[s].repo = r}
      page == {s \in inRepo : Cardinality({t \in inRepo : t > s}) < PageSize}
  IN {s \in page : /\ tn - Date(s) <= Window
                   /\ (cur = 0 \/ cur \notin page \/ s > cur)}

QualifyingNow(r) ==
  IF r \in Repos \ obs.bad
  THEN Qualifying(obs.u, r, obs.cur0, now, obs.seen[r])
  ELSE {}

\* C1: each write of an account's cursor stores a commit whose date is not
\* earlier than the date of the commit the cursor pointed to before.
CursorMonotonic ==
  [][\A a \in Rows :
       (cursor[a] > 0 /\ cursor'[a] # cursor[a]) => Date(cursor'[a]) >= Date(cursor[a])]_vars

\* C2: after a processing of an account in which every fetch succeeded,
\* a next tick with no new upstream commit (same clock) would select
\* nothing for that account.
NoOpIdempotent ==
  [][(obs'.a # 0 /\ obs'.disc = "ok" /\ ~obs'.tr /\ obs'.bad = {} /\ obs'.w # "fail")
       => NewCommits(obs'.u, Repos, cursor'[obs'.a], now, Upto(Len(made))) = << >>]_vars

\* C3: a selected commit is never the cursor commit and never older than
\* the cursor commit.
EligibleAgainstCursor ==
  Processed =>
    \A r \in Repos :
      obs.sel[r] # 0 =>
        /\ obs.sel[r] # obs.cur0
        /\ (obs.cur0 <= 0 \/ Date(obs.sel[r]) >= Date(obs.cur0))

\* C4: for every repository with qualifying commits exactly one commit is
\* selected, one with the greatest date among them; channel.send is only
\* called for selected commits and, when the account's sends complete, for
\* every selected commit.
PerRepoConflation ==
  /\ Fetched =>
       \A r \in Repos :
         LET Q == QualifyingNow(r)
         IN /\ (Q = {}) <=> (obs.sel[r] = 0)
            /\ Q # {} => /\ obs.sel[r] \in Q
                         /\ \A q \in Q : Date(q) <= Date(obs.sel[r])
  /\ Processed => obs.sent \subseteq SelSet(obs.sel)
  /\ (Processed /\ obs.chan /\ obs.st = "done") => obs.sent = SelSet(obs.sel)

PerRepoConflationWitness ==
  /\ Fetched /\ obs.st = "done" /\ obs.chan /\ obs.cur0 > 0
  /\ \E r \in Repos : Cardinality(QualifyingNow(r)) >= 2

\* C5: no commit older than the tick time minus Window days is selected,
\* sent or stored as cursor.
WindowExclusion ==
  Processed =>
    /\ \A r \in Repos : obs.sel[r] # 0 => Date(obs.sel[r]) >= now - Window
    /\ \A s \in obs.sent : Date(s) >= now - Window
    /\ obs.w = "ok" => Date(cursor[obs.a]) >= now - Window

WindowExclusionWitness ==
  /\ Fetched /\ obs.st = "done" /\ obs.bad = {} /\ obs.cur0 = 0
  /\ obs.sel = NoSel /\ cursor[obs.a] = 0
  /\ \E s \in 1..Len(made) : made[s].acct = obs.u /\ now - Date(s) > Window

\* C6: once the cursor write of a processing succeeds, the cursor is the
\* selected commit with the greatest date; without a write (nothing
\* selected) the cursor is unchanged.
CursorComputation ==
  Processed =>
    /\ obs.w = "ok" =>
         /\ cursor[obs.a] \in SelSet(obs.sel)
         /\ \A s \in SelSet(obs.sel) : Date(s) <= Date(cursor[obs.a])
    /\ obs.w = "none" => cursor[obs.a] = obs.cur0

CursorComputationWitness ==
  /\ Processed /\ obs.w = "ok" /\ Cardinality(SelSet(obs.sel)) = 2
  /\ \E r1, r2 \in Repos : obs.sel[r1] # 0 /\ obs.sel[r2] # 0 /\ Date(obs.sel[r1]) < Date(obs.sel[r2])

\* C7: whatever fails while one account of a tick is processed (discovery,
\* fetch, cursor write, delivery), the polling task keeps running and the
\* tick goes on with the next account of its snapshot.
AccountIsolation ==
  [][(pc # 0 /\ obs'.a # 0) => (loop' = "running" /\ pc' = NextPc(pc))]_vars

\* C8: a failing commit fetch of one repository skips that repository
\* only: the account's processing still completes.
FetchFailureContained ==
  (Processed /\ obs.disc = "ok" /\ (obs.tr \/ obs.bad # {})) => obs.st = "done"

\* C9: a failing or empty repository listing skips the account: no cursor
\* change, no send, no exception out of the tick.
DiscoveryFailureContained ==
  (Processed /\ obs.disc # "ok") =>
    /\ obs.st = "skip"
    /\ cursor[obs.a] = obs.cur0
    /\ obs.sent = {}

\* C10: no send before the cursor write; a failed write sends nothing and
\* the task goes on polling; after a successful write every selected commit
\* is handed to the channel (a missing channel counts as a failed delivery)
\* and a failing send stops neither the account nor the task.
AdvanceThenDeliver ==
  Processed =>
    /\ obs.sent # {} => obs.w = "ok"
    /\ obs.w = "fail" => obs.sent = {} /\ loop = "running"
    /\ obs.w = "ok" => /\ obs.chan => obs.sent = SelSet(obs.sel)
                       /\ obs.st = "done"

\* C11: a new tick never starts while a previous invocation of
\* check_commits is still executing: at most one invocation is in flight.
RunGuard == running <= 1

RunGuardWitness ==
  /\ running = 1 /\ pc # 0
  /\ cursor[1] > 0 /\ obs.a = 0

\* C12: once add_github has completed for an account, the first tick
\* started afterwards selects no commit pushed before the link completed.
LinkCatchUp ==
  [][(pc # 0 /\ obs'.a # 0 /\ snap[pc].ln >= 0)
       => \A s \in SelSet(obs'.sel) : s > snap[pc].ln]_vars
====
